---- MODULE Spec2Model ----
\* A model of the chunk codecs of ProjectorRays (src/src/director/chunk.cpp):
\* the cast member chunk, the cast chunk, the script context and name table,
\* the list-chunk framework with the cast list and the cast info, the config
\* chunk, and the stream reads of the script chunks.
\*
\* Bytes are integers 0..255; byte strings and text strings are sequences of
\* bytes.  A 32-bit quantity is held as its two's-complement representative in
\* -2^31 .. 2^31-1 (an unsigned value >= 2^31 appears as a negative number).
EXTENDS Integers, Sequences, FiniteSets, TLC

VARIABLES
    \* ---- CastMemberChunk (one chunk, its input stream and its output) ----
    mpc,          \* "idle" | "init" | "read" | "sized" | "written" | "error"
    dirVersion,   \* dir->version, gates the layout
    mstream,      \* the bytes handed to CastMemberChunk::read
    member,       \* the CastMemberChunk's fields, info sub-chunk included
    mout,         \* the bytes emitted by CastMemberChunk::write
    \* ---- CastChunk::populate ----
    cpc,          \* "idle" | "init" | "loop" | "done"
    cast,         \* the CastChunk: memberIDs, lctx, members, loop index
    castArgs,     \* populate's arguments id and minMember
    cdir,         \* the directory seen by populate: keyTable, context chunks
    casts,        \* the directory's CASt chunks by section ID (id, scriptId, script)
    lscripts,     \* the scripts of the directory's context chunks (member back-pointer)
    \* ---- ScriptContextChunk::read / ScriptChunk / ScriptNamesChunk ----
    xpc,          \* "idle" | "init" | "lnam" | "load" | "translate" | "done"
    ctx,          \* the ScriptContextChunk: sectionMap, scripts, loop index
    lnam,         \* the ScriptNamesChunk's names, once resolved
    lscr,         \* the directory's Lscr chunks by section ID
    xlog,         \* the calls made so far, in order
    nprobe,       \* the last call of ScriptNamesChunk::getName: id and result
    \* ---- ListChunk / CastListChunk ----
    lpc,          \* "idle" | "init" | "entries" | "read" | "crashed" | "error"
    lstream,      \* the bytes handed to CastListChunk::read
    list,         \* the list chunk's fields
    entries,      \* CastListChunk::entries
    probe,        \* the last accessor call: index and results
    \* ---- ConfigChunk ----
    gpc,          \* "idle" | "init" | "read" | "sized" | "written" | "crashed" | "error"
    gstream,      \* the bytes handed to ConfigChunk::read
    config,       \* the ConfigChunk's fields
    glog,         \* what read computed: checksum trace, warning
    gout,         \* the bytes emitted by ConfigChunk::write
    build,        \* what the build does on an integer division by zero
    \* ---- CastInfoChunk on its own (one sub-chunk, its input and output) ----
    infopc,       \* "idle" | "init" | "read" | "sized" | "written" | "error"
    istream,      \* the bytes handed to CastInfoChunk::read
    cinfo,        \* the CastInfoChunk's fields
    iout,         \* the bytes emitted by CastInfoChunk's write
    \* ---- the stream reads of the script chunks (Lscr, Lctx/LctX, Lnam) ----
    spc,          \* "idle" | "init" | "read" | "error"
    skind,        \* "Lscr" | "Lctx" | "Lnam": which read is called
    sstream,      \* the bytes handed to the read
    sentry,       \* stream.endianness when the read is entered
    sendian,      \* stream.endianness now
    schunk,       \* the fields the read has set
    slog          \* the stream reads made, each with the endianness it used

memberVars == <<mpc, dirVersion, mstream, member, mout>>
castVars == <<cpc, cast, castArgs, cdir, casts, lscripts>>
ctxVars == <<xpc, ctx, lnam, lscr, xlog, nprobe>>
listVars == <<lpc, lstream, list, entries, probe>>
configVars == <<gpc, gstream, config, glog, gout, build>>
infoVars == <<infopc, istream, cinfo, iout>>
scriptVars == <<spc, skind, sstream, sentry, sendian, schunk, slog>>
vars ==
    <<memberVars, castVars, ctxVars, listVars, configVars, infoVars, scriptVars>>

\* what the operations of one chunk kind leave alone
MemberFrame == UNCHANGED <<scriptVars, castVars, ctxVars, listVars, configVars, infoVars>>

CastFrame == UNCHANGED <<scriptVars, memberVars, ctxVars, listVars, configVars, infoVars>>

CtxFrame == UNCHANGED <<scriptVars, memberVars, castVars, listVars, configVars, infoVars>>

ListFrame == UNCHANGED <<scriptVars, memberVars, castVars, ctxVars, configVars, infoVars>>

ConfigFrame == UNCHANGED <<scriptVars, memberVars, castVars, ctxVars, listVars, infoVars>>

InfoFrame ==
    UNCHANGED <<memberVars, castVars, ctxVars, listVars, configVars, scriptVars>>

ScriptFrame ==
    UNCHANGED <<memberVars, castVars, ctxVars, listVars, configVars, infoVars>>

\* ------------------------------------------------------------------
\* Bounds of the model
\* ------------------------------------------------------------------
MaxSpecificLen == 3

MaxMembers == 2

MaxKeys == 2

MaxEntries == 2

MaxNameId == 11

MaxCasts == 2

MaxProbe == 6

MaxRemnants == 2

\* the most items in the offset table of a cast info sub-chunk
MaxInfoItems == 3

\* the most name IDs in a property or global table of an Lscr chunk
MaxVarnames == 2

\* the most names in an Lnam chunk
MaxNames == 2

\* ------------------------------------------------------------------
\* Byte stream (common/stream.h): big- and little-endian primitives
\* ------------------------------------------------------------------
Byte == 0..255

Rev(s) == [i \in 1..Len(s) |-> s[Len(s) + 1 - i]]

Ordered(s, e) == IF e = "BE" THEN s ELSE Rev(s)

\* ReadStream::readUint8 .. readInt32 at an absolute position (0-based)
Avail(s, pos, n) == n >= 0 /\ pos >= 0 /\ pos + n <= Len(s)

Slice(s, pos, n) == SubSeq(s, pos + 1, pos + n)

U8At(s, pos) == s[pos + 1]

U16At(s, pos, e) ==
    LET b == Ordered(Slice(s, pos, 2), e) IN b[1] * 256 + b[2]

I16At(s, pos, e) ==
    LET u == U16At(s, pos, e) IN IF u >= 32768 THEN u - 65536 ELSE u

W32At(s, pos, e) ==
    LET b == Ordered(Slice(s, pos, 4), e)
        hi == IF b[1] >= 128 THEN b[1] - 256 ELSE b[1]
    IN hi * 16777216 + b[2] * 65536 + b[3] * 256 + b[4]

\* WriteStream::writeUint8 .. writeInt32: the value truncated to the width
Enc8(v) == <<v % 256>>

Enc16(v, e) == Ordered(<<(v \div 256) % 256, v % 256>>, e)

Enc32(v, e) ==
    Ordered(<<(v \div 16777216) % 256, (v \div 65536) % 256,
              (v \div 256) % 256, v % 256>>, e)

\* WriteStream::writePascalString: one length byte, then the bytes
EncPascal(str) == Enc8(Len(str)) \o str

RECURSIVE Concat(_)
Concat(ss) == IF ss = <<>> THEN <<>> ELSE Head(ss) \o Concat(Tail(ss))

\* ------------------------------------------------------------------
\* ListChunk: the offset-table list framework
\* ------------------------------------------------------------------
NoList ==
    [ok |-> FALSE, dataOffset |-> 0, offsetTableLen |-> 0, offsetTable |-> <<>>,
     itemsLen |-> 0, items |-> <<>>, itemEndianness |-> "BE"]

\* ListChunk::readOffsetTable then ListChunk::readItems, after the header
\* has set dataOffset.  A read or copy past the end of the stream fails.
ListReadBody(s, e, dataOffset) ==
    IF ~Avail(s, dataOffset, 2) THEN NoList
    ELSE
    LET n == U16At(s, dataOffset, e)
        p1 == dataOffset + 2 + 4 * n
    IN  IF ~Avail(s, dataOffset + 2, 4 * n + 4) THEN NoList
        ELSE
        LET offs == [i \in 1..n |-> W32At(s, dataOffset + 2 + 4 * (i - 1), e)]
            itemsLen == W32At(s, p1, e)
            listOffset == p1 + 4
            nextOffset(i) == IF i = n THEN itemsLen ELSE offs[i + 1]
            itemOk(i) == Avail(s, listOffset + offs[i], nextOffset(i) - offs[i])
        IN  IF \E i \in 1..n : ~itemOk(i) THEN NoList
            ELSE [ok |-> TRUE, dataOffset |-> dataOffset, offsetTableLen |-> n,
                  offsetTable |-> offs, itemsLen |-> itemsLen,
                  items |-> [i \in 1..n |->
                               Slice(s, listOffset + offs[i], nextOffset(i) - offs[i])],
                  itemEndianness |-> e]

\* The accessors take a uint16_t index: an int argument is truncated.
ToU16(i) == i % 65536

\* ListChunk::readBytes: a null stream when the index is out of range
readBytes(l, index) ==
    IF index >= l.offsetTableLen THEN [null |-> TRUE, data |-> <<>>]
    ELSE [null |-> FALSE, data |-> l.items[index + 1]]

\* ListChunk::readString
readString(l, index) ==
    IF index >= l.offsetTableLen THEN [ok |-> TRUE, val |-> <<>>]
    ELSE [ok |-> TRUE, val |-> readBytes(l, index).data]

\* ListChunk::readPascalString
readPascalString(l, index) ==
    IF index >= l.offsetTableLen THEN [ok |-> TRUE, val |-> <<>>]
    ELSE LET d == readBytes(l, index).data IN
         IF Len(d) = 0 THEN [ok |-> TRUE, val |-> <<>>]
         ELSE IF ~Avail(d, 1, d[1]) THEN [ok |-> FALSE, val |-> <<>>]
         ELSE [ok |-> TRUE, val |-> Slice(d, 1, d[1])]

\* ListChunk::readUint16
readUint16(l, index) ==
    IF index >= l.offsetTableLen THEN [ok |-> TRUE, val |-> 0]
    ELSE LET d == readBytes(l, index).data IN
         IF ~Avail(d, 0, 2) THEN [ok |-> FALSE, val |-> 0]
         ELSE [ok |-> TRUE, val |-> U16At(d, 0, l.itemEndianness)]

\* a readUint32 that reports an error for an index past the offset table
readUint32_Throws(l, index) ==
    IF index >= l.offsetTableLen THEN [ok |-> FALSE, val |-> 0]
    ELSE IF Avail(l.items[index + 1], 0, 4)
         THEN [ok |-> TRUE, val |-> W32At(l.items[index + 1], 0, l.itemEndianness)]
         ELSE [ok |-> FALSE, val |-> 0]

\* ListChunk::readUint32
readUint32(l, index) ==
    IF index >= l.offsetTableLen THEN [ok |-> TRUE, val |-> 0]
    ELSE LET d == readBytes(l, index).data IN
         IF ~Avail(d, 0, 4) THEN [ok |-> FALSE, val |-> 0]
         ELSE [ok |-> TRUE, val |-> W32At(d, 0, l.itemEndianness)]

\* ------------------------------------------------------------------
\* CastInfoChunk: a list chunk with a 20-byte header
\* ------------------------------------------------------------------
CastInfoHeaderSize == 20

NoInfo ==
    [ok |-> FALSE, dataOffset |-> 0, unk1 |-> 0, unk2 |-> 0, flags |-> 0,
     scriptId |-> 0, offsetTableLen |-> 0, offsetTable |-> <<>>, itemsLen |-> 0,
     items |-> <<>>, scriptSrcText |-> <<>>, name |-> <<>>]

\* CastInfoChunk::read (readHeader, readOffsetTable, readItems, items 0 and 1)
CastInfoRead(s, e) ==
    IF ~Avail(s, 0, CastInfoHeaderSize) THEN NoInfo
    ELSE
    LET l == ListReadBody(s, e, W32At(s, 0, e))
        text == readString(l, 0)
        nm == readPascalString(l, 1)
    IN  IF ~l.ok \/ ~nm.ok THEN NoInfo
        ELSE [ok |-> TRUE, dataOffset |-> l.dataOffset,
              unk1 |-> W32At(s, 4, e), unk2 |-> W32At(s, 8, e),
              flags |-> W32At(s, 12, e), scriptId |-> W32At(s, 16, e),
              offsetTableLen |-> l.offsetTableLen, offsetTable |-> l.offsetTable,
              itemsLen |-> l.itemsLen, items |-> l.items,
              scriptSrcText |-> text.val, name |-> nm.val]

\* CastInfoChunk::itemSize (index 0-based)
CastInfoItemSize(info, index) ==
    CASE index = 0 -> Len(info.scriptSrcText)
      [] index = 1 -> IF Len(info.name) > 0 THEN 1 + Len(info.name) ELSE 0
      [] OTHER -> Len(info.items[index + 1])

\* CastInfoChunk::writeItem
CastInfoWriteItem(info, index) ==
    CASE index = 0 -> info.scriptSrcText
      [] index = 1 -> IF Len(info.name) > 0 THEN EncPascal(info.name) ELSE <<>>
      [] OTHER -> info.items[index + 1]

\* ListChunk::updateOffsets on a cast info chunk
RECURSIVE OffsetsFrom(_, _, _)
OffsetsFrom(info, index, offset) ==
    IF index >= info.offsetTableLen THEN <<>>
    ELSE <<offset>> \o OffsetsFrom(info, index + 1, offset + CastInfoItemSize(info, index))

RECURSIVE ItemsLenFrom(_, _)
ItemsLenFrom(info, index) ==
    IF index >= info.offsetTableLen THEN 0
    ELSE CastInfoItemSize(info, index) + ItemsLenFrom(info, index + 1)

CastInfoUpdateOffsets(info) ==
    [info EXCEPT !.offsetTable = OffsetsFrom(info, 0, 0),
                 !.itemsLen = ItemsLenFrom(info, 0)]

\* ListChunk::size with CastInfoChunk::headerSize
CastInfoSize(info) ==
    CastInfoHeaderSize + (2 + 4 * info.offsetTableLen)
        + (4 + CastInfoUpdateOffsets(info).itemsLen)

\* ListChunk::write with CastInfoChunk::writeHeader and writeItem
CastInfoWrite(info, e) ==
    LET u == CastInfoUpdateOffsets(info) IN
    Enc32(CastInfoHeaderSize, e) \o Enc32(u.unk1, e) \o Enc32(u.unk2, e)
        \o Enc32(u.flags, e) \o Enc32(u.scriptId, e)
        \o Enc16(u.offsetTableLen, e)
        \o Concat([i \in 1..u.offsetTableLen |-> Enc32(u.offsetTable[i], e)])
        \o Enc32(u.itemsLen, e)
        \o Concat([i \in 1..u.offsetTableLen |-> CastInfoWriteItem(u, i - 1)])

\* ------------------------------------------------------------------
\* CastMemberChunk
\* ------------------------------------------------------------------
NoMember ==
    [type |-> 0, flags1 |-> 0, hasFlags1 |-> FALSE, specificDataLen |-> 0,
     infoLen |-> 0, specificData |-> <<>>, info |-> NoInfo, sizeRet |-> 0]

\* CastMemberChunk::read, both layouts; ok is FALSE when a stream read fails
CastMemberRead(s, version) ==
    LET fail == [ok |-> FALSE, m |-> NoMember] IN
    IF version >= 500 THEN
        IF ~Avail(s, 0, 12) THEN fail
        ELSE
        LET infoLen == W32At(s, 4, "BE")
            specificDataLen == W32At(s, 8, "BE")
        IN  IF ~Avail(s, 12, infoLen) THEN fail
            ELSE
            LET info == CastInfoRead(Slice(s, 12, infoLen), "BE") IN
            IF ~info.ok \/ ~Avail(s, 12 + infoLen, specificDataLen) THEN fail
            ELSE [ok |-> TRUE,
                  m |-> [type |-> W32At(s, 0, "BE"), flags1 |-> 0,
                         hasFlags1 |-> FALSE,
                         specificDataLen |-> specificDataLen, infoLen |-> infoLen,
                         specificData |-> Slice(s, 12 + infoLen, specificDataLen),
                         info |-> info, sizeRet |-> 0]]
    ELSE
        IF ~Avail(s, 0, 7) THEN fail
        ELSE
        LET specificDataLen == U16At(s, 0, "BE")
            infoLen == W32At(s, 2, "BE")
            left1 == specificDataLen - 1      \* uint32_t: 0 - 1 is 0xFFFFFFFF
            hasFlags1 == left1 # 0
            left2 == IF hasFlags1 THEN left1 - 1 ELSE left1
            pos == IF hasFlags1 THEN 8 ELSE 7
        IN  IF hasFlags1 /\ ~Avail(s, 7, 1) THEN fail
            ELSE IF ~Avail(s, pos, left2) THEN fail
            ELSE IF ~Avail(s, pos + left2, infoLen) THEN fail
            ELSE
            LET info == CastInfoRead(Slice(s, pos + left2, infoLen), "BE") IN
            IF ~info.ok THEN fail
            ELSE [ok |-> TRUE,
                  m |-> [type |-> U8At(s, 6),
                         flags1 |-> IF hasFlags1 THEN U8At(s, 7) ELSE 0,
                         hasFlags1 |-> hasFlags1,
                         specificDataLen |-> specificDataLen, infoLen |-> infoLen,
                         specificData |-> Slice(s, pos, left2),
                         info |-> info, sizeRet |-> 0]]

\* CastMemberChunk::size: re-derives infoLen and specificDataLen
CastMemberSize(m, version) ==
    LET infoLen == CastInfoSize(m.info)
        dataLen == Len(m.specificData)
        specificDataLen ==
            IF version >= 500 THEN dataLen
            ELSE dataLen + 1 + (IF m.hasFlags1 THEN 1 ELSE 0)
        len == IF version >= 500 THEN 4 + 4 + 4 + infoLen + specificDataLen
               ELSE 2 + 4 + specificDataLen + infoLen
    IN  [m EXCEPT !.infoLen = infoLen, !.specificDataLen = specificDataLen,
                  !.info = CastInfoUpdateOffsets(m.info), !.sizeRet = len]

\* CastMemberChunk::write: the bytes emitted, in the order the code emits them
CastMemberWrite(m, version) ==
    IF version >= 500 THEN
        Enc32(m.type, "BE") \o Enc32(m.infoLen, "BE") \o Enc32(m.specificDataLen, "BE")
            \o CastInfoWrite(m.info, "BE") \o m.specificData
    ELSE
        Enc16(m.specificDataLen, "BE") \o Enc32(m.infoLen, "BE")
            \o CastInfoWrite(m.info, "BE")
            \o Enc8(m.type)
            \o (IF m.hasFlags1 THEN Enc8(m.flags1) ELSE <<>>)
            \o m.specificData

\* Cast-info sub-chunks on the wire: no items; a script text and a name.
InfoSamples ==
    LET hdr(scriptId) ==
            Enc32(20, "BE") \o Enc32(0, "BE") \o Enc32(0, "BE") \o Enc32(0, "BE")
                \o Enc32(scriptId, "BE")
    IN  { hdr(1) \o Enc16(0, "BE") \o Enc32(0, "BE"),
          hdr(2) \o Enc16(2, "BE") \o Enc32(0, "BE") \o Enc32(1, "BE")
                 \o Enc32(3, "BE") \o <<120>> \o <<1, 97>> }

\* The type byte and the bytes after it (kBitmapMember, kTextMember, data)
PayloadBytes == {1, 3}

RECURSIVE SeqsOfLen(_, _)
SeqsOfLen(S, n) ==
    IF n = 0 THEN {<<>>}
    ELSE {<<x>> \o t : x \in S, t \in SeqsOfLen(S, n - 1)}

SeqsUpTo(S, n) == UNION {SeqsOfLen(S, k) : k \in 0..n}

\* Version < 500 wire layout: specificDataLen, infoLen, the specificDataLen
\* bytes, the cast info.  A declared length of 0 carries no bytes.
OldMemberInputs ==
    { Enc16(Len(p), "BE") \o Enc32(Len(i), "BE") \o p \o i :
        p \in SeqsUpTo(PayloadBytes, MaxSpecificLen), i \in InfoSamples }

\* Version >= 500 wire layout: type, infoLen, specificDataLen, info, data
NewMemberInputs ==
    { Enc32(t, "BE") \o Enc32(Len(i), "BE") \o Enc32(Len(d), "BE") \o i \o d :
        t \in PayloadBytes, i \in InfoSamples,
        d \in SeqsUpTo(PayloadBytes, MaxSpecificLen - 1) }

MemberIdle ==
    /\ mpc = "idle" /\ dirVersion = 0 /\ mstream = <<>>
    /\ member = NoMember /\ mout = <<>>

MemberInit ==
    /\ mpc = "init"
    /\ dirVersion \in {400, 500}
    /\ mstream \in (IF dirVersion >= 500 THEN NewMemberInputs ELSE OldMemberInputs)
    /\ member = NoMember
    /\ mout = <<>>

MemberRead ==
    /\ mpc = "init"
    /\ LET r == CastMemberRead(mstream, dirVersion) IN
        /\ mpc' = IF r.ok THEN "read" ELSE "error"
        /\ member' = r.m
    /\ UNCHANGED <<dirVersion, mstream, mout>>
    /\ MemberFrame

MemberSize ==
    /\ mpc = "read"
    /\ member' = CastMemberSize(member, dirVersion)
    /\ mpc' = "sized"
    /\ UNCHANGED <<dirVersion, mstream, mout>>
    /\ MemberFrame

MemberWrite ==
    /\ mpc = "sized"
    /\ mout' = CastMemberWrite(member, dirVersion)
    /\ member' = [member EXCEPT !.info = CastInfoUpdateOffsets(member.info)]
    /\ mpc' = "written"
    /\ UNCHANGED <<dirVersion, mstream>>
    /\ MemberFrame

\* ------------------------------------------------------------------
\* CastChunk::populate
\* ------------------------------------------------------------------
\* Pointers are section IDs; 0 is the null pointer.
Null == 0

\* The CASt slots and the Lscr chunks of the directory
CastSlots == {5, 6}

ScriptIds == {21, 22, 23}

\* The context chunks of the directory: slot -> tag and scripts map
ContextChoices ==
    { [s \in {10, 11} |->
         IF s = 10 THEN [tag |-> "Lctx", scripts |-> m]
         ELSE [tag |-> "LctX", scripts |-> (1 :> 23)]] :
      m \in { (1 :> 21) @@ (2 :> 22), (2 :> 22), (1 :> 21) @@ (2 :> 21) } }

KeyEntries ==
    { [castID |-> 1, fourCC |-> "Lctx", sectionID |-> 10],
      [castID |-> 1, fourCC |-> "LctX", sectionID |-> 11],
      [castID |-> 1, fourCC |-> "Lctx", sectionID |-> 12],
      [castID |-> 2, fourCC |-> "Lctx", sectionID |-> 10],
      [castID |-> 1, fourCC |-> "CASt", sectionID |-> 5] }

\* dir->chunkExists(fourCC, sectionID) for the context tags
chunkExists(d, fourCC, sectionID) ==
    sectionID \in DOMAIN d.contexts /\ d.contexts[sectionID].tag = fourCC

\* a key table loop without the break: the last entry that matches wins
RECURSIVE FindContext_LastMatch(_, _, _)
FindContext_LastMatch(d, id, k) ==
    IF k > Len(d.keyTable) THEN Null
    ELSE LET entry == d.keyTable[k]
             later == FindContext_LastMatch(d, id, k + 1)
         IN  IF later # Null THEN later
             ELSE IF /\ entry.castID = id
                     /\ entry.fourCC \in {"Lctx", "LctX"}
                     /\ chunkExists(d, entry.fourCC, entry.sectionID)
                  THEN entry.sectionID
                  ELSE Null

\* The first loop of populate: the first key-table entry that matches
RECURSIVE FindContext(_, _, _)
FindContext(d, id, k) ==
    IF k > Len(d.keyTable) THEN Null
    ELSE LET entry == d.keyTable[k] IN
         IF /\ entry.castID = id
            /\ entry.fourCC \in {"Lctx", "LctX"}
            /\ chunkExists(d, entry.fourCC, entry.sectionID)
         THEN entry.sectionID
         ELSE FindContext(d, id, k + 1)

\* a populate that numbers the members from 0, whatever minMember is
MemberIndex_FromZero(i, minMember) == i

\* member->id = i + minMember (i is the 0-based position)
MemberIndex(i, minMember) == i + minMember

\* a populate that sets member->script and forgets script->member
WireScript_NoBackPointer(ls, script, sectionID) == ls

\* member->script->member = member.get()
WireScript(ls, script, sectionID) == [ls EXCEPT ![script].member = sectionID]

\* the scripts map of the bound context (empty when none is bound)
BoundScripts(d, lctx) ==
    IF lctx = Null THEN <<>> ELSE d.contexts[lctx].scripts

\* the condition under which populate wires a member to a script
HasScript(d, lctx, scriptId) ==
    lctx # Null /\ scriptId \in DOMAIN BoundScripts(d, lctx)

CastIdle ==
    /\ cpc = "idle"
    /\ cast = [name |-> "", memberIDs |-> <<>>, lctx |-> Null, members |-> <<>>, i |-> 0]
    /\ castArgs = [castName |-> "", id |-> 0, minMember |-> 0]
    /\ cdir = [keyTable |-> <<>>, contexts |-> <<>>]
    /\ casts = <<>>
    /\ lscripts = <<>>

CastInit ==
    /\ cpc = "init"
    /\ \E ids \in SeqsUpTo({-1, 0} \cup CastSlots, MaxMembers) :
         cast = [name |-> "", memberIDs |-> ids, lctx |-> Null, members |-> <<>>,
                 i |-> 0]
    /\ \E mm \in {0, 1} :
         castArgs = [castName |-> "Internal", id |-> 1, minMember |-> mm]
    /\ \E kt \in SeqsUpTo(KeyEntries, MaxKeys), c \in ContextChoices :
         cdir = [keyTable |-> kt, contexts |-> c]
    /\ \E sid \in {1, 2} :
         casts = [s \in CastSlots |->
                    [id |-> 0, scriptId |-> IF s = 5 THEN 1 ELSE sid,
                     script |-> Null]]
    /\ lscripts = [s \in ScriptIds |-> [member |-> Null]]

\* populate, lines 88-97: bind the script context
PopulateBind ==
    /\ cpc = "init"
    /\ cast' = [cast EXCEPT !.name = castArgs.castName,
                            !.lctx = FindContext(cdir, castArgs.id, 1), !.i = 0]
    /\ cpc' = "loop"
    /\ UNCHANGED <<castArgs, cdir, casts, lscripts>>
    /\ CastFrame

\* populate, lines 99-110: one iteration of the member loop
PopulateMember ==
    /\ cpc = "loop"
    /\ cast.i < Len(cast.memberIDs)
    /\ LET sectionID == cast.memberIDs[cast.i + 1]
           id == MemberIndex(cast.i, castArgs.minMember)
           wire == HasScript(cdir, cast.lctx, casts[sectionID].scriptId)
           script == BoundScripts(cdir, cast.lctx)[casts[sectionID].scriptId]
       IN  IF sectionID > 0 THEN
               /\ casts' = [casts EXCEPT ![sectionID].id = id,
                                         ![sectionID].script =
                                             IF wire THEN script ELSE @]
               /\ lscripts' = IF wire THEN WireScript(lscripts, script, sectionID)
                              ELSE lscripts
               /\ cast' = [cast EXCEPT !.members = (id :> sectionID) @@ @,
                                       !.i = @ + 1]
           ELSE
               /\ cast' = [cast EXCEPT !.i = @ + 1]
               /\ UNCHANGED <<casts, lscripts>>
    /\ UNCHANGED <<cpc, castArgs, cdir>>
    /\ CastFrame

\* populate returns
PopulateDone ==
    /\ cpc = "loop"
    /\ cast.i >= Len(cast.memberIDs)
    /\ cpc' = "done"
    /\ UNCHANGED <<cast, castArgs, cdir, casts, lscripts>>
    /\ CastFrame

\* ------------------------------------------------------------------
\* ScriptNamesChunk, ScriptChunk::setContext, ScriptContextChunk::read
\* ------------------------------------------------------------------
\* Text is a sequence of one-character strings.
Digit(d) == <<"0", "1", "2", "3", "4", "5", "6", "7", "8", "9">>[d + 1]

\* std::to_string(int)
RECURSIVE NatToString(_)
NatToString(n) ==
    IF n < 10 THEN <<Digit(n)>> ELSE NatToString(n \div 10) \o <<Digit(n % 10)>>

to_string(n) == IF n < 0 THEN <<"-">> \o NatToString(-n) ELSE NatToString(n)

UnknownName == <<"U", "N", "K", "N", "O", "W", "N", "_", "N", "A", "M", "E", "_">>

\* the test of ScriptNamesChunk::getName; (unsigned)id is id when -1 < id
NameInRange(names, id) == -1 < id /\ id < Len(names)

\* a getName that takes the id as a 1-based index
getName_OneBased(names, id) ==
    IF 0 < id /\ id <= Len(names) THEN names[id]
    ELSE UnknownName \o to_string(id)

\* ScriptNamesChunk::getName
getName(names, id) ==
    IF NameInRange(names, id) THEN names[id + 1]
    ELSE UnknownName \o to_string(id)

\* what ScriptChunk::setContext appends to propertyNames / globalNames
ResolveNames(names, ids) == [k \in 1..Len(ids) |-> getName(names, ids[k])]

\* ScriptChunk::setContext(ctx) on one script chunk
setContext(script, names) ==
    [script EXCEPT !.context = TRUE,
                   !.propertyNames = @ \o ResolveNames(names, script.propertyNameIDs),
                   !.globalNames = @ \o ResolveNames(names, script.globalNameIDs)]

LscrSlots == {31, 32}

NameTables == { <<>>, << <<"x">>, <<"y">>, <<"z">> >> }

NoScript ==
    [propertyNameIDs |-> <<>>, globalNameIDs |-> <<>>, propertyNames |-> <<>>,
     globalNames |-> <<>>, context |-> FALSE, translated |-> 0]

CtxIdle ==
    /\ xpc = "idle"
    /\ ctx = [sectionMap |-> <<>>, scripts |-> <<>>, i |-> 0, pending |-> {}]
    /\ lnam = [bound |-> FALSE, names |-> <<>>]
    /\ lscr = <<>>
    /\ xlog = <<>>
    /\ nprobe = [called |-> FALSE, id |-> 0, name |-> <<>>]

CtxInit ==
    /\ xpc = "init"
    /\ \E sm \in SeqsUpTo({-1} \cup LscrSlots, MaxEntries) :
         ctx = [sectionMap |-> sm, scripts |-> <<>>, i |-> 0, pending |-> {}]
    /\ \E n \in NameTables : lnam = [bound |-> FALSE, names |-> n]
    /\ \E p \in { <<0, 2>>, <<-1, 3>>, <<>> }, g \in { <<1>>, <<10>> } :
         lscr = [s \in LscrSlots |->
                   IF s = 31
                   THEN [NoScript EXCEPT !.propertyNameIDs = p, !.globalNameIDs = g]
                   ELSE [NoScript EXCEPT !.propertyNameIDs = <<2>>]]
    /\ xlog = <<>>
    /\ nprobe = [called |-> FALSE, id |-> 0, name |-> <<>>]

\* read, line 955: resolve the name table
CtxResolveLnam ==
    /\ xpc = "init"
    /\ lnam' = [lnam EXCEPT !.bound = TRUE]
    /\ ctx' = [ctx EXCEPT !.i = 1]
    /\ xlog' = Append(xlog, <<"getLnam", 0>>)
    /\ xpc' = "load"
    /\ UNCHANGED <<lscr, nprobe>>
    /\ CtxFrame

\* an iteration that translates the script as soon as it is bound
CtxLoadScript_TranslatesAtOnce ==
    /\ xpc = "load"
    /\ ctx.i <= Len(ctx.sectionMap)
    /\ LET sectionID == ctx.sectionMap[ctx.i] IN
       IF sectionID > -1 THEN
           /\ lscr' = [lscr EXCEPT ![sectionID] =
                          [setContext(@, lnam.names) EXCEPT !.translated = @ + 1]]
           /\ ctx' = [ctx EXCEPT !.scripts = (ctx.i :> sectionID) @@ @, !.i = @ + 1]
           /\ xlog' = xlog \o << <<"setContext", sectionID>>, <<"translate", sectionID>> >>
       ELSE
           /\ ctx' = [ctx EXCEPT !.i = @ + 1]
           /\ UNCHANGED <<lscr, xlog>>
    /\ UNCHANGED <<xpc, lnam, nprobe>>
    /\ CtxFrame

\* read, lines 956-963: one iteration over the section map
CtxLoadScript ==
    /\ xpc = "load"
    /\ ctx.i <= Len(ctx.sectionMap)
    /\ LET sectionID == ctx.sectionMap[ctx.i] IN
       IF sectionID > -1 THEN
           /\ lscr' = [lscr EXCEPT ![sectionID] = setContext(@, lnam.names)]
           /\ ctx' = [ctx EXCEPT !.scripts = (ctx.i :> sectionID) @@ @, !.i = @ + 1]
           /\ xlog' = Append(xlog, <<"setContext", sectionID>>)
       ELSE
           /\ ctx' = [ctx EXCEPT !.i = @ + 1]
           /\ UNCHANGED <<lscr, xlog>>
    /\ UNCHANGED <<xpc, lnam, nprobe>>
    /\ CtxFrame

\* read, line 965: the translate loop starts at the first key of scripts
CtxStartTranslate ==
    /\ xpc = "load"
    /\ ctx.i > Len(ctx.sectionMap)
    /\ ctx' = [ctx EXCEPT !.pending = DOMAIN ctx.scripts]
    /\ xpc' = "translate"
    /\ UNCHANGED <<lnam, lscr, xlog, nprobe>>
    /\ CtxFrame

\* read, lines 965-967: translate the next script, in key order
CtxTranslate ==
    /\ xpc = "translate"
    /\ ctx.pending # {}
    /\ LET key == CHOOSE k \in ctx.pending : \A j \in ctx.pending : k <= j
           sectionID == ctx.scripts[key]
       IN  /\ lscr' = [lscr EXCEPT ![sectionID].translated = @ + 1]
           /\ ctx' = [ctx EXCEPT !.pending = @ \ {key}]
           /\ xlog' = Append(xlog, <<"translate", sectionID>>)
    /\ UNCHANGED <<xpc, lnam, nprobe>>
    /\ CtxFrame

CtxDone ==
    /\ xpc = "translate"
    /\ ctx.pending = {}
    /\ xpc' = "done"
    /\ UNCHANGED <<ctx, lnam, lscr, xlog, nprobe>>
    /\ CtxFrame

\* a call of ScriptNamesChunk::getName(id) on the name table
CallGetName ==
    /\ xpc = "done"
    /\ \E id \in -MaxNameId..MaxNameId :
         nprobe' = [called |-> TRUE, id |-> id, name |-> getName(lnam.names, id)]
    /\ UNCHANGED <<xpc, ctx, lnam, lscr, xlog>>
    /\ CtxFrame

\* ------------------------------------------------------------------
\* CastListChunk (a list chunk with a 12-byte header) and the accessors
\* ------------------------------------------------------------------
CastListHeaderSize == 12

NoEntry ==
    [name |-> <<>>, filePath |-> <<>>, preloadSettings |-> 0,
     minMember |-> 0, maxMember |-> 0, id |-> 0]

NoCastList ==
    [ok |-> FALSE, dataOffset |-> 0, unk0 |-> 0, castCount |-> 0,
     itemsPerCast |-> 0, unk1 |-> 0, offsetTableLen |-> 0, offsetTable |-> <<>>,
     itemsLen |-> 0, items |-> <<>>, itemEndianness |-> "BE", i |-> 0]

\* CastListChunk::readHeader, then ListChunk::readOffsetTable and readItems
CastListReadList(s) ==
    IF ~Avail(s, 0, CastListHeaderSize) THEN NoCastList
    ELSE LET l == ListReadBody(s, "BE", W32At(s, 0, "BE")) IN
         IF ~l.ok THEN NoCastList
         ELSE [ok |-> TRUE, dataOffset |-> l.dataOffset,
               unk0 |-> U16At(s, 4, "BE"), castCount |-> U16At(s, 6, "BE"),
               itemsPerCast |-> U16At(s, 8, "BE"), unk1 |-> U16At(s, 10, "BE"),
               offsetTableLen |-> l.offsetTableLen, offsetTable |-> l.offsetTable,
               itemsLen |-> l.itemsLen, items |-> l.items,
               itemEndianness |-> l.itemEndianness, i |-> 0]

\* the item index of field j (1..4) of cast i, as the uint16_t passed on
CastItemIndex(l, i, j) == ToU16(i * l.itemsPerCast + j)

\* what the dereference of a null item stream can leave in the three fields
Garbage == {0, 7}

\* One iteration of the loop of CastListChunk::read on entry i (0-based).
\* outcome "ok": the entry; "error": a stream read failed; "null": the item
\* stream of readBytes was null when it was dereferenced.
CastListEntry(l, i) ==
    LET nm == IF l.itemsPerCast >= 1 THEN readPascalString(l, CastItemIndex(l, i, 1))
              ELSE [ok |-> TRUE, val |-> <<>>]
        fp == IF l.itemsPerCast >= 2 THEN readPascalString(l, CastItemIndex(l, i, 2))
              ELSE [ok |-> TRUE, val |-> <<>>]
        ps == IF l.itemsPerCast >= 3 THEN readUint16(l, CastItemIndex(l, i, 3))
              ELSE [ok |-> TRUE, val |-> 0]
        item == readBytes(l, CastItemIndex(l, i, 4))
        e == [NoEntry EXCEPT !.name = nm.val, !.filePath = fp.val,
                             !.preloadSettings = ps.val]
    IN  IF ~nm.ok \/ ~fp.ok \/ ~ps.ok THEN [outcome |-> "error", entry |-> NoEntry]
        ELSE IF l.itemsPerCast < 4 THEN [outcome |-> "ok", entry |-> e]
        ELSE IF item.null THEN [outcome |-> "null", entry |-> e]
        ELSE IF ~Avail(item.data, 0, 8) THEN [outcome |-> "error", entry |-> NoEntry]
        ELSE [outcome |-> "ok",
              entry |-> [e EXCEPT !.minMember = U16At(item.data, 0, l.itemEndianness),
                                  !.maxMember = U16At(item.data, 2, l.itemEndianness),
                                  !.id = W32At(item.data, 4, l.itemEndianness)]]

\* The items of a cast list on the wire: item 0, then per cast its name,
\* file path, preload settings, member range and id, then unused items.
CastListItem(itemsPerCast, index) ==
    IF index = 0 THEN <<>>
    ELSE LET k == (index - 1) \div itemsPerCast
             j == ((index - 1) % itemsPerCast) + 1
         IN  CASE j = 1 -> <<1, 97 + k>>
               [] j = 2 -> <<2, 47, 98>>
               [] j = 3 -> Enc16(5, "BE")
               [] j = 4 -> Enc16(1, "BE") \o Enc16(9, "BE") \o Enc32(1024 + k, "BE")
               [] OTHER -> <<>>

RECURSIVE WireOffsets(_, _)
WireOffsets(items, offset) ==
    IF items = <<>> THEN <<>>
    ELSE Enc32(offset, "BE") \o WireOffsets(Tail(items), offset + Len(Head(items)))

\* A cast list whose offset table holds only the first nItems items
CastListWire(castCount, itemsPerCast, nItems) ==
    LET items == [x \in 1..nItems |-> CastListItem(itemsPerCast, x - 1)] IN
    Enc32(CastListHeaderSize, "BE") \o Enc16(0, "BE") \o Enc16(castCount, "BE")
        \o Enc16(itemsPerCast, "BE") \o Enc16(0, "BE")
        \o Enc16(nItems, "BE") \o WireOffsets(items, 0)
        \o Enc32(Len(Concat(items)), "BE") \o Concat(items)

NoProbe ==
    [called |-> FALSE, index |-> 0, bytes |-> [null |-> TRUE, data |-> <<>>],
     string |-> [ok |-> TRUE, val |-> <<>>], pascal |-> [ok |-> TRUE, val |-> <<>>],
     u16 |-> [ok |-> TRUE, val |-> 0], u32 |-> [ok |-> TRUE, val |-> 0]]

ListIdle ==
    /\ lpc = "idle" /\ lstream = <<>> /\ list = NoCastList
    /\ entries = <<>> /\ probe = NoProbe

ListInit ==
    /\ lpc = "init"
    /\ \E c \in 0..MaxCasts, ipc \in 0..5 :
         \E n \in 0..(c * ipc + 1) : lstream = CastListWire(c, ipc, n)
    /\ list = NoCastList
    /\ entries = <<>>
    /\ probe = NoProbe

\* CastListChunk::read, lines 116-118
CastListRead ==
    /\ lpc = "init"
    /\ LET l == CastListReadList(lstream) IN
        /\ list' = l
        /\ entries' = [k \in 1..l.castCount |-> NoEntry]
        /\ lpc' = IF l.ok THEN "entries" ELSE "error"
    /\ UNCHANGED <<lstream, probe>>
    /\ ListFrame

\* CastListChunk::read, lines 119-132: one iteration, no null dereference
CastListReadEntry ==
    /\ lpc = "entries"
    /\ list.i < list.castCount
    /\ LET r == CastListEntry(list, list.i) IN
        /\ r.outcome # "null"
        /\ entries' = IF r.outcome = "ok"
                      THEN [entries EXCEPT ![list.i + 1] = r.entry] ELSE entries
        /\ lpc' = IF r.outcome = "ok" THEN "entries" ELSE "error"
    /\ list' = [list EXCEPT !.i = @ + 1]
    /\ UNCHANGED <<lstream, probe>>
    /\ ListFrame

\* CastListChunk::read, lines 127-130 with readBytes returning nullptr: the
\* dereference is undefined; the process is killed, or the three fields are
\* loaded from whatever the null stream object reads as.
CastListNullItem ==
    /\ lpc = "entries"
    /\ list.i < list.castCount
    /\ LET r == CastListEntry(list, list.i) IN
        /\ r.outcome = "null"
        /\ \/ /\ lpc' = "crashed"
              /\ UNCHANGED entries
           \/ /\ lpc' = "entries"
              /\ \E a \in Garbage, b \in Garbage, c \in Garbage :
                   entries' = [entries EXCEPT ![list.i + 1] =
                                 [r.entry EXCEPT !.minMember = a, !.maxMember = b,
                                                 !.id = c]]
    /\ list' = [list EXCEPT !.i = @ + 1]
    /\ UNCHANGED <<lstream, probe>>
    /\ ListFrame

CastListReadDone ==
    /\ lpc = "entries"
    /\ list.i >= list.castCount
    /\ lpc' = "read"
    /\ UNCHANGED <<lstream, list, entries, probe>>
    /\ ListFrame

\* a call of each accessor of the parsed list with the same index
ListProbe ==
    /\ lpc = "read"
    /\ \E index \in 0..MaxProbe :
         probe' = [called |-> TRUE, index |-> index,
                   bytes |-> readBytes(list, index),
                   string |-> readString(list, index),
                   pascal |-> readPascalString(list, index),
                   u16 |-> readUint16(list, index),
                   u32 |-> readUint32(list, index)]
    /\ UNCHANGED <<lpc, lstream, list, entries>>
    /\ ListFrame

\* ------------------------------------------------------------------
\* 32-bit arithmetic on two's-complement representatives, by 16-bit limbs
\* ------------------------------------------------------------------
IntMin == -2147483647 - 1

Hi16(a) == (a \div 65536) % 65536

Lo16(a) == a % 65536

Word(hi, lo) == (IF hi >= 32768 THEN hi - 65536 ELSE hi) * 65536 + lo

Add32(a, b) ==
    LET lo == Lo16(a) + Lo16(b) IN
    Word((Hi16(a) + Hi16(b) + (lo \div 65536)) % 65536, lo % 65536)

Sub32(a, b) ==
    LET lo == Lo16(a) - Lo16(b) IN
    Word((Hi16(a) - Hi16(b) + (lo \div 65536)) % 65536, lo % 65536)

\* the low 16 bits of x * y, for x and y in 0..65535
MulLow16(x, y) == ((((x \div 256) * y) % 256) * 256 + ((x % 256) * y)) % 65536

Mul32(a, b) ==
    LET p1 == (Lo16(a) \div 256) * Lo16(b)
        p0 == (Lo16(a) % 256) * Lo16(b)
        lo == (p1 % 256) * 256 + (p0 % 65536)
        hi == (p1 \div 256) + (p0 \div 65536) + (lo \div 65536)
                  + MulLow16(Hi16(a), Lo16(b)) + MulLow16(Lo16(a), Hi16(b))
    IN  Word(hi % 65536, lo % 65536)

RECURSIVE BitXor(_, _, _)
BitXor(x, y, n) ==
    IF n = 0 THEN 0 ELSE ((x + y) % 2) + 2 * BitXor(x \div 2, y \div 2, n - 1)

Xor32(a, b) == Word(BitXor(Hi16(a), Hi16(b), 16), BitXor(Lo16(a), Lo16(b), 16))

\* int32_t division is defined unless the divisor is 0 or INT_MIN / -1
DivDefined(a, d) == d # 0 /\ ~(a = IntMin /\ d = -1)

\* int32_t division, truncated toward zero
RECURSIVE Div32(_, _)
Div32(a, d) ==
    IF d < 0 THEN -Div32(a, -d)
    ELSE LET q == a \div d IN IF a < 0 /\ a % d # 0 THEN q + 1 ELSE q

\* ------------------------------------------------------------------
\* ConfigChunk
\* ------------------------------------------------------------------
\* humanVersion (director/util.h): the release a raw directorVersion names;
\* its parameter is unsigned, so a negative int16_t is a large value
humanVersion(ver) ==
    CASE ver < 0 \/ ver >= 1951 -> 1200
      [] ver >= 1922 -> 1150
      [] ver >= 1921 -> 1100
      [] ver >= 1851 -> 1000
      [] ver >= 1700 -> 850
      [] ver >= 1410 -> 800
      [] ver >= 1224 -> 700
      [] ver >= 1218 -> 600
      [] ver >= 1201 -> 500
      [] ver >= 1117 -> 404
      [] ver >= 1115 -> 400
      [] ver >= 1029 -> 310
      [] ver >= 1028 -> 300
      [] OTHER -> 200

Width(kind) ==
    CASE kind = "u8" -> 1
      [] kind \in {"u16", "i16"} -> 2
      [] kind \in {"u32", "i32"} -> 4

\* the stream reads of ConfigChunk::read, in order
ReadLayout ==
    << <<"len", "u16">>, <<"fileVersion", "u16">>, <<"movieTop", "i16">>,
       <<"movieLeft", "i16">>, <<"movieBottom", "i16">>, <<"movieRight", "i16">>,
       <<"minMember", "u16">>, <<"maxMember", "u16">>, <<"field9", "u8">>,
       <<"field10", "u8">>, <<"field11", "i16">>, <<"commentFont", "i16">>,
       <<"commentSize", "i16">>, <<"commentStyle", "u16">>, <<"stageColor", "i16">>,
       <<"bitDepth", "i16">>, <<"field17", "u8">>, <<"field18", "u8">>,
       <<"field19", "i32">>, <<"directorVersion", "i16">>, <<"field21", "i16">>,
       <<"field22", "i32">>, <<"field23", "i32">>, <<"field24", "i32">>,
       <<"field25", "u8">>, <<"field26", "u8">>, <<"frameRate", "i16">>,
       <<"platform", "i16">>, <<"protection", "i16">>, <<"field29", "i32">>,
       <<"checksum", "u32">> >>

\* the stream writes of ConfigChunk::write, in order
WriteLayout ==
    << <<"len", "u16">>, <<"fileVersion", "u16">>, <<"movieTop", "i16">>,
       <<"movieLeft", "i16">>, <<"movieBottom", "i16">>, <<"movieRight", "i16">>,
       <<"minMember", "u16">>, <<"maxMember", "u16">>, <<"field9", "u8">>,
       <<"field10", "u8">>, <<"field11", "i16">>, <<"commentFont", "i16">>,
       <<"commentSize", "i16">>, <<"commentStyle", "u16">>, <<"stageColor", "i16">>,
       <<"bitDepth", "i16">>, <<"field17", "u8">>, <<"field18", "u8">>,
       <<"field19", "i32">>, <<"directorVersion", "i16">>, <<"field21", "i16">>,
       <<"field22", "i32">>, <<"field23", "i32">>, <<"field24", "i32">>,
       <<"field25", "u8">>, <<"field26", "u8">>, <<"frameRate", "i16">>,
       <<"platform", "i16">>, <<"protection", "i16">>, <<"field29", "i32">>,
       <<"checksum", "u32">> >>

ReadValue(s, pos, kind) ==
    CASE kind = "u8" -> U8At(s, pos)
      [] kind = "u16" -> U16At(s, pos, "BE")
      [] kind = "i16" -> I16At(s, pos, "BE")
      [] kind \in {"u32", "i32"} -> W32At(s, pos, "BE")

WriteValue(v, kind) ==
    CASE kind = "u8" -> Enc8(v)
      [] kind \in {"u16", "i16"} -> Enc16(v, "BE")
      [] kind \in {"u32", "i32"} -> Enc32(v, "BE")

RECURSIVE LayoutSize(_)
LayoutSize(layout) ==
    IF layout = <<>> THEN 0 ELSE Width(Head(layout)[2]) + LayoutSize(Tail(layout))

RECURSIVE ReadFields(_, _, _)
ReadFields(s, layout, pos) ==
    IF layout = <<>> THEN <<>>
    ELSE (Head(layout)[1] :> ReadValue(s, pos, Head(layout)[2]))
             @@ ReadFields(s, Tail(layout), pos + Width(Head(layout)[2]))

RECURSIVE WriteFields(_, _)
WriteFields(c, layout) ==
    IF layout = <<>> THEN <<>>
    ELSE WriteValue(c[Head(layout)[1]], Head(layout)[2]) \o WriteFields(c, Tail(layout))

\* the comment-style operand of the checksum (lines 462-466)
CommentStyleOperand(c, ver) ==
    IF ver < 800 THEN ((c.commentStyle \div 256) % 256) + 14
    ELSE c.commentStyle + 14

\* a stage-color operand whose gate takes version 700 as old
StageColorOperand_GateInclusive(c, ver) ==
    IF ver <= 700 THEN c.stageColor + 15
    ELSE (c.stageColor % 256) + 15

\* the stage-color operand of the checksum (lines 467-471)
StageColorOperand(c, ver) ==
    IF ver < 700 THEN c.stageColor + 15
    ELSE (c.stageColor % 256) + 15

CommentStyleStep == 13

StageColorStep == 14

\* the compound assignments of computeChecksum after check = len + 1
ChecksumSteps(c, ver) ==
    << <<"*", c.fileVersion + 2>>, <<"/", c.movieTop + 3>>,
       <<"*", c.movieLeft + 4>>, <<"/", c.movieBottom + 5>>,
       <<"*", c.movieRight + 6>>, <<"-", c.minMember + 7>>,
       <<"*", c.maxMember + 8>>, <<"-", c.field9 + 9>>,
       <<"-", c.field10 + 10>>, <<"+", c.field11 + 11>>,
       <<"*", c.commentFont + 12>>, <<"+", c.commentSize + 13>>,
       <<"*", CommentStyleOperand(c, ver)>>,
       <<"+", StageColorOperand(c, ver)>>,
       <<"+", c.bitDepth + 16>>, <<"+", c.field17 + 17>>,
       <<"*", c.field18 + 18>>, <<"+", Add32(c.field19, 19)>>,
       <<"*", c.directorVersion + 20>>, <<"+", c.field21 + 21>>,
       <<"+", Add32(c.field22, 22)>>, <<"+", Add32(c.field23, 23)>>,
       <<"+", Add32(c.field24, 24)>>, <<"*", c.field25 + 25>>,
       <<"+", c.frameRate + 26>>, <<"*", c.platform + 27>>,
       <<"*", Add32(c.protection * 3590, -12255232)>>,
       <<"^", 1918987366>> >>

\* one compound assignment on the int32_t register; b is the build
ApplyStep(check, step, b) ==
    CASE step[1] = "*" -> Mul32(check, step[2])
      [] step[1] = "+" -> Add32(check, step[2])
      [] step[1] = "-" -> Sub32(check, step[2])
      [] step[1] = "^" -> Xor32(check, step[2])
      [] step[1] = "/" -> IF DivDefined(check, step[2]) THEN Div32(check, step[2])
                          ELSE b.quot

\* the register after each assignment; ok is FALSE when an undefined
\* division traps
RECURSIVE RunSteps(_, _, _)
RunSteps(trace, steps, b) ==
    IF steps = <<>> THEN [ok |-> TRUE, trace |-> trace]
    ELSE LET check == trace[Len(trace)]
             step == Head(steps)
         IN  IF step[1] = "/" /\ ~DivDefined(check, step[2]) /\ b.trap
             THEN [ok |-> FALSE, trace |-> trace]
             ELSE RunSteps(Append(trace, ApplyStep(check, step, b)), Tail(steps), b)

\* ConfigChunk::computeChecksum
computeChecksum(c, b) ==
    LET r == RunSteps(<<c.len + 1>>, ChecksumSteps(c, humanVersion(c.directorVersion)), b)
    IN  [ok |-> r.ok, value |-> r.trace[Len(r.trace)], trace |-> r.trace]

NoConfig == [f \in {"len"} |-> 0]

NoLog ==
    [warned |-> FALSE, computed |-> 0, trace |-> <<>>, sizeRet |-> 0]

\* ConfigChunk::read up to remnants; ok is FALSE when a stream read fails
ConfigReadFields(s) ==
    IF ~Avail(s, 0, LayoutSize(ReadLayout)) THEN [ok |-> FALSE, c |-> NoConfig]
    ELSE LET f == ReadFields(s, ReadLayout, 0)
             pos == LayoutSize(ReadLayout)
         IN  IF ~Avail(s, pos, f.len - pos) THEN [ok |-> FALSE, c |-> NoConfig]
             ELSE [ok |-> TRUE,
                   c |-> f @@ ("remnants" :> Slice(s, pos, f.len - pos))]

\* a read that repairs the stored checksum on a mismatch
ConfigAfterCheck_Repair(c, computed) ==
    [c |-> [c EXCEPT !.checksum = computed], warned |-> (c.checksum # computed)]

\* read, lines 397-400: the stored checksum is compared and kept
ConfigAfterCheck(c, computed) ==
    [c |-> c, warned |-> (c.checksum # computed)]

\* ConfigChunk::size
ConfigSize(c) == c.len

\* a write that leaves the remnants out
ConfigWrite_NoRemnants(c) == WriteFields(c, WriteLayout)

\* ConfigChunk::write after checksum = computeChecksum()
ConfigWrite(c) == WriteFields(c, WriteLayout) \o c.remnants

\* A config record on the wire, laid out as ConfigChunk::read expects it
BaseConfig ==
    [len |-> 68, fileVersion |-> 65000, movieTop |-> 97, movieLeft |-> 30000,
     movieBottom |-> 475, movieRight |-> 640, minMember |-> 1,
     maxMember |-> 60000, field9 |-> 0, field10 |-> 200, field11 |-> -1,
     commentFont |-> 3, commentSize |-> 12, commentStyle |-> 4660,
     stageColor |-> -2, bitDepth |-> 8, field17 |-> 0, field18 |-> 1,
     field19 |-> 2147483640, directorVersion |-> 1218, field21 |-> -7,
     field22 |-> -1, field23 |-> 0, field24 |-> 5, field25 |-> 255,
     field26 |-> 9, frameRate |-> 30, platform |-> -1, protection |-> 23,
     field29 |-> -2, checksum |-> 0]

Builds ==
    { [trap |-> TRUE, quot |-> 0], [trap |-> FALSE, quot |-> 0],
      [trap |-> FALSE, quot |-> -1] }

\* four bytes after the checksum field, for a record with len = 72
RemnantSample == <<7, 0, 9, 1>>

\* fields varied over the cases of the checksum, the declared len being
\* the stream length plus delta
ConfigFieldChoices(b) ==
    { LET c == [BaseConfig EXCEPT !.len = 68 + Len(rem) + delta,
                                  !.movieTop = top, !.movieBottom = bottom,
                                  !.commentStyle = style, !.stageColor = color,
                                  !.directorVersion = dv]
      IN  [c EXCEPT !.checksum = IF good THEN computeChecksum(c, b).value
                                 ELSE 305419896] @@ ("remnants" :> rem) :
        rem \in SeqsUpTo({9}, MaxRemnants) \cup {RemnantSample},
        delta \in {-1, 0, 1},
        top \in {-3, 97}, bottom \in {-5, 475}, style \in {4660, 255},
        color \in {-2, 511}, dv \in {1218, 1224, 1410}, good \in BOOLEAN }

ConfigWire(c) == WriteFields(c, ReadLayout) \o c.remnants

ConfigIdle ==
    /\ gpc = "idle" /\ gstream = <<>> /\ config = NoConfig /\ glog = NoLog
    /\ gout = <<>> /\ build = [trap |-> TRUE, quot |-> 0]

ConfigInit ==
    /\ gpc = "init"
    /\ build \in Builds
    /\ \E c \in ConfigFieldChoices(build) : gstream = ConfigWire(c)
    /\ config = NoConfig
    /\ glog = NoLog
    /\ gout = <<>>

\* ConfigChunk::read
ConfigRead ==
    /\ gpc = "init"
    /\ LET r == ConfigReadFields(gstream)
           cc == computeChecksum(r.c, build)
           a == ConfigAfterCheck(r.c, cc.value)
       IN  IF ~r.ok THEN
               gpc' = "error" /\ UNCHANGED <<config, glog>>
           ELSE IF ~cc.ok THEN
               gpc' = "crashed" /\ config' = r.c /\ UNCHANGED glog
           ELSE
               /\ gpc' = "read"
               /\ config' = a.c
               /\ glog' = [warned |-> a.warned, computed |-> cc.value,
                           trace |-> cc.trace, sizeRet |-> 0]
    /\ UNCHANGED <<gstream, gout, build>>
    /\ ConfigFrame

\* ConfigChunk::size
ConfigSizeCall ==
    /\ gpc = "read"
    /\ glog' = [glog EXCEPT !.sizeRet = ConfigSize(config)]
    /\ gpc' = "sized"
    /\ UNCHANGED <<gstream, config, gout, build>>
    /\ ConfigFrame

\* ConfigChunk::write
ConfigWriteCall ==
    /\ gpc = "sized"
    /\ LET cc == computeChecksum(config, build)
           c == [config EXCEPT !.checksum = cc.value]
       IN  IF ~cc.ok THEN
               gpc' = "crashed" /\ UNCHANGED <<config, gout>>
           ELSE
               gpc' = "written" /\ config' = c /\ gout' = ConfigWrite(c)
    /\ UNCHANGED <<gstream, glog, build>>
    /\ ConfigFrame

\* ------------------------------------------------------------------
\* CastInfoChunk read, size and write on its own
\* ------------------------------------------------------------------
\* The bytes an item of a cast info block can hold: item 0 a script text,
\* item 1 a name (no bytes, an empty name, a name, a name and a stray byte),
\* the items after them opaque.
InfoItemChoices(index) ==
    CASE index = 0 -> {<<>>, <<120>>}
      [] index = 1 -> {<<>>, <<0>>, <<1, 97>>, <<1, 97, 98>>}
      [] OTHER -> {<<>>, <<5, 6>>}

RECURSIVE InfoItemLists(_)
InfoItemLists(n) ==
    IF n = 0 THEN {<<>>}
    ELSE {Append(l, x) : l \in InfoItemLists(n - 1), x \in InfoItemChoices(n - 1)}

RECURSIVE InfoOffsets(_, _)
InfoOffsets(items, offset) ==
    IF items = <<>> THEN <<>>
    ELSE Enc32(offset, "BE") \o InfoOffsets(Tail(items), offset + Len(Head(items)))

\* A cast info block laid out as CastInfoChunk::read takes it: the header,
\* pad bytes up to dataOffset, the offset table, itemsLen and the items
InfoWire(pad, items) ==
    Enc32(CastInfoHeaderSize + Len(pad), "BE") \o Enc32(1, "BE") \o Enc32(2, "BE")
        \o Enc32(3, "BE") \o Enc32(4, "BE") \o pad
        \o Enc16(Len(items), "BE") \o InfoOffsets(items, 0)
        \o Enc32(Len(Concat(items)), "BE") \o Concat(items)

InfoIdle ==
    /\ infopc = "idle" /\ istream = <<>> /\ cinfo = NoInfo /\ iout = <<>>

InfoInit ==
    /\ infopc = "init"
    /\ \E n \in 0..MaxInfoItems, pad \in {<<>>, <<0, 0>>} :
         \E items \in InfoItemLists(n) : istream = InfoWire(pad, items)
    /\ cinfo = NoInfo
    /\ iout = <<>>

\* CastInfoChunk::read
InfoRead ==
    /\ infopc = "init"
    /\ cinfo' = CastInfoRead(istream, "BE")
    /\ infopc' = IF cinfo'.ok THEN "read" ELSE "error"
    /\ UNCHANGED <<istream, iout>>
    /\ InfoFrame

\* ListChunk::size on the cast info: itemsSize calls updateOffsets
InfoSize ==
    /\ infopc = "read"
    /\ cinfo' = CastInfoUpdateOffsets(cinfo)
    /\ infopc' = "sized"
    /\ UNCHANGED <<istream, iout>>
    /\ InfoFrame

\* ListChunk::write on the cast info
InfoWrite ==
    /\ infopc = "sized"
    /\ iout' = CastInfoWrite(cinfo, "BE")
    /\ cinfo' = CastInfoUpdateOffsets(cinfo)
    /\ infopc' = "written"
    /\ UNCHANGED istream
    /\ InfoFrame

\* ------------------------------------------------------------------
\* The stream reads of ScriptChunk, ScriptContextChunk, ScriptNamesChunk
\* ------------------------------------------------------------------
\* A read is a list of stream operations: <<"seek", pos>>, <<"be">> (the
\* assignment stream.endianness = kBigEndian), <<"rd", field, kind>> (a
\* readUint / readInt into a field), <<"app", field, kind>> (the same into
\* the next element of a vector) and <<"pstr", field>> (a length byte and
\* that many bytes into the next element of a vector).
StreamValue(s, pos, kind, e) ==
    CASE kind = "u8" -> U8At(s, pos)
      [] kind = "u16" -> U16At(s, pos, e)
      [] kind = "i16" -> I16At(s, pos, e)
      [] kind \in {"u32", "i32"} -> W32At(s, pos, e)

\* one stream operation on the state [pos, e, f, log, ok]
StreamOp(s, st, op) ==
    CASE op[1] = "seek" -> [st EXCEPT !.pos = op[2]]
      [] op[1] = "be" -> [st EXCEPT !.e = "BE"]
      [] op[1] \in {"rd", "app"} ->
            LET w == Width(op[3]) IN
            IF ~Avail(s, st.pos, w) THEN [st EXCEPT !.ok = FALSE]
            ELSE LET v == StreamValue(s, st.pos, op[3], st.e) IN
                 [st EXCEPT !.pos = @ + w,
                            !.f = IF op[1] = "rd" THEN (op[2] :> v) @@ st.f
                                  ELSE [st.f EXCEPT ![op[2]] = Append(@, v)],
                            !.log = Append(@, [field |-> op[2], width |-> w,
                                               e |-> st.e])]
      [] op[1] = "pstr" ->
            IF ~Avail(s, st.pos, 1) \/ ~Avail(s, st.pos + 1, U8At(s, st.pos))
            THEN [st EXCEPT !.ok = FALSE]
            ELSE LET n == U8At(s, st.pos) IN
                 [st EXCEPT !.pos = @ + 1 + n,
                            !.f = [st.f EXCEPT ![op[2]] =
                                      Append(@, Slice(s, st.pos + 1, n))],
                            !.log = Append(@, [field |-> op[2], width |-> 1,
                                               e |-> st.e])]

RECURSIVE StreamOps(_, _, _)
StreamOps(s, st, ops) ==
    IF ops = <<>> \/ ~st.ok THEN st
    ELSE StreamOps(s, StreamOp(s, st, Head(ops)), Tail(ops))

Repeat(op, n) == [i \in 1..n |-> op]

StreamStart(e, lists) ==
    [pos |-> 0, e |-> e, f |-> [x \in lists |-> <<>>], log |-> <<>>, ok |-> TRUE]

\* fixed fields whose first one is read before the endianness is forced
ScriptHeaderOps_ForceAfterLength ==
    << <<"seek", 8>>, <<"rd", "totalLength", "u32">>, <<"be">>,
       <<"rd", "totalLength2", "u32">>,
       <<"rd", "headerLength", "u16">>, <<"rd", "scriptNumber", "u16">>,
       <<"seek", 38>>, <<"rd", "scriptBehavior", "u32">>,
       <<"seek", 50>>,
       <<"rd", "handlerVectorsCount", "u16">>, <<"rd", "handlerVectorsOffset", "u32">>,
       <<"rd", "handlerVectorsSize", "u32">>,
       <<"rd", "propertiesCount", "u16">>, <<"rd", "propertiesOffset", "u32">>,
       <<"rd", "globalsCount", "u16">>, <<"rd", "globalsOffset", "u32">>,
       <<"rd", "handlersCount", "u16">>, <<"rd", "handlersOffset", "u32">>,
       <<"rd", "literalsCount", "u16">>, <<"rd", "literalsOffset", "u32">>,
       <<"rd", "literalsDataCount", "u32">>, <<"rd", "literalsDataOffset", "u32">> >>

\* ScriptChunk::read, lines 780-802: the fixed fields
ScriptHeaderOps ==
    << <<"seek", 8>>, <<"be">>,
       <<"rd", "totalLength", "u32">>, <<"rd", "totalLength2", "u32">>,
       <<"rd", "headerLength", "u16">>, <<"rd", "scriptNumber", "u16">>,
       <<"seek", 38>>, <<"rd", "scriptBehavior", "u32">>,
       <<"seek", 50>>,
       <<"rd", "handlerVectorsCount", "u16">>, <<"rd", "handlerVectorsOffset", "u32">>,
       <<"rd", "handlerVectorsSize", "u32">>,
       <<"rd", "propertiesCount", "u16">>, <<"rd", "propertiesOffset", "u32">>,
       <<"rd", "globalsCount", "u16">>, <<"rd", "globalsOffset", "u32">>,
       <<"rd", "handlersCount", "u16">>, <<"rd", "handlersOffset", "u32">>,
       <<"rd", "literalsCount", "u16">>, <<"rd", "literalsOffset", "u32">>,
       <<"rd", "literalsDataCount", "u32">>, <<"rd", "literalsDataOffset", "u32">> >>

\* ScriptChunk::readVarnamesTable
VarnamesOps(field, count, offset) ==
    << <<"seek", offset>> >> \o Repeat(<<"app", field, "i16">>, count)

\* ScriptChunk::read of a script without handlers and literals (their
\* records are read by Handler and LiteralStore, outside this file)
ScriptChunkRead(s, e) ==
    LET h == StreamOps(s, StreamStart(e, {"propertyNameIDs", "globalNameIDs"}),
                       ScriptHeaderOps)
    IN  IF ~h.ok THEN h
        ELSE LET p == StreamOps(s, h, VarnamesOps("propertyNameIDs",
                                   h.f["propertiesCount"], h.f["propertiesOffset"]))
             IN  IF ~p.ok THEN p
                 ELSE StreamOps(s, p, VarnamesOps("globalNameIDs",
                                   h.f["globalsCount"], h.f["globalsOffset"])
                                   \o << <<"seek", h.f["handlersOffset"]>>,
                                         <<"seek", h.f["literalsOffset"]>> >>)

\* ScriptContextChunk::read, lines 933-947: the fixed fields
ContextHeaderOps ==
    << <<"be">>,
       <<"rd", "unknown0", "i32">>, <<"rd", "unknown1", "i32">>,
       <<"rd", "entryCount", "u32">>, <<"rd", "entryCount2", "u32">>,
       <<"rd", "entriesOffset", "u16">>, <<"rd", "unknown2", "i16">>,
       <<"rd", "unknown3", "i32">>, <<"rd", "unknown4", "i32">>,
       <<"rd", "unknown5", "i32">>, <<"rd", "lnamSectionID", "i32">>,
       <<"rd", "validCount", "u16">>, <<"rd", "flags", "u16">>,
       <<"rd", "freePointer", "i16">> >>

\* the read of one section map entry: unknown0, sectionID, unknown1, unknown2
MapEntryOps ==
    << <<"rd", "entry.unknown0", "i32">>, <<"app", "sectionMap", "i32">>,
       <<"rd", "entry.unknown1", "u16">>, <<"rd", "entry.unknown2", "u16">> >>

\* ScriptContextChunk::read, lines 933-953: header and section map
ScriptContextRead(s, e) ==
    LET h == StreamOps(s, StreamStart(e, {"sectionMap"}), ContextHeaderOps) IN
    IF ~h.ok \/ h.f["entryCount"] < 0 THEN [h EXCEPT !.ok = FALSE]
    ELSE StreamOps(s, h, << <<"seek", h.f["entriesOffset"]>> >>
                           \o Concat(Repeat(MapEntryOps, h.f["entryCount"])))

\* ScriptNamesChunk::read, lines 995-1002: the fixed fields
NamesHeaderOps ==
    << <<"be">>,
       <<"rd", "unknown0", "i32">>, <<"rd", "unknown1", "i32">>,
       <<"rd", "len1", "u32">>, <<"rd", "len2", "u32">>,
       <<"rd", "namesOffset", "u16">>, <<"rd", "namesCount", "u16">> >>

\* ScriptNamesChunk::read
ScriptNamesRead(s, e) ==
    LET h == StreamOps(s, StreamStart(e, {"names"}), NamesHeaderOps) IN
    IF ~h.ok THEN h
    ELSE StreamOps(s, h, << <<"seek", h.f["namesOffset"]>> >>
                           \o Repeat(<<"pstr", "names">>, h.f["namesCount"]))

Zeros(n) == [i \in 1..n |-> 0]

\* An Lscr chunk laid out as ScriptChunk::read takes it, big-endian, with
\* its property and global name tables after the 92-byte header
LscrWire(props, globals) ==
    LET end == 92 + 2 * (Len(props) + Len(globals)) IN
    Zeros(8) \o Enc32(end, "BE") \o Enc32(end, "BE") \o Enc16(92, "BE")
        \o Enc16(1, "BE") \o Zeros(18) \o Enc32(16909060, "BE") \o Zeros(8)
        \o Enc16(0, "BE") \o Enc32(92, "BE") \o Enc32(0, "BE")
        \o Enc16(Len(props), "BE") \o Enc32(92, "BE")
        \o Enc16(Len(globals), "BE") \o Enc32(92 + 2 * Len(props), "BE")
        \o Enc16(0, "BE") \o Enc32(end, "BE")
        \o Enc16(0, "BE") \o Enc32(end, "BE")
        \o Enc32(0, "BE") \o Enc32(end, "BE")
        \o Concat([i \in 1..Len(props) |-> Enc16(props[i], "BE")])
        \o Concat([i \in 1..Len(globals) |-> Enc16(globals[i], "BE")])

\* An Lctx chunk: the 42-byte header, then 12 bytes per section map entry
LctxWire(map, lnamSectionID) ==
    Enc32(0, "BE") \o Enc32(0, "BE") \o Enc32(Len(map), "BE")
        \o Enc32(Len(map), "BE") \o Enc16(42, "BE") \o Enc16(-1, "BE")
        \o Enc32(0, "BE") \o Enc32(0, "BE") \o Enc32(0, "BE")
        \o Enc32(lnamSectionID, "BE") \o Enc16(Len(map), "BE")
        \o Enc16(4, "BE") \o Enc16(-1, "BE")
        \o Concat([i \in 1..Len(map) |->
                     Enc32(0, "BE") \o Enc32(map[i], "BE") \o Enc16(0, "BE")
                         \o Enc16(4, "BE")])

\* An Lnam chunk: the 20-byte header, then the names as Pascal strings
LnamWire(names) ==
    LET body == Concat([i \in 1..Len(names) |-> EncPascal(names[i])]) IN
    Enc32(0, "BE") \o Enc32(0, "BE") \o Enc32(Len(body), "BE")
        \o Enc32(Len(body), "BE") \o Enc16(20, "BE") \o Enc16(Len(names), "BE")
        \o body

ScriptWires(kind) ==
    CASE kind = "Lscr" ->
            { LscrWire(p, g) : p \in SeqsUpTo({258, -2}, MaxVarnames),
                               g \in SeqsUpTo({513}, MaxVarnames) }
      [] kind = "Lctx" ->
            { LctxWire(m, l) : m \in SeqsUpTo({-1, 31}, MaxEntries), l \in {-1, 40} }
      [] kind = "Lnam" ->
            { LnamWire(n) : n \in SeqsUpTo({<<97>>, <<98, 99>>}, MaxNames) }

ScriptIdle ==
    /\ spc = "idle" /\ skind = "Lscr" /\ sstream = <<>> /\ sentry = "BE"
    /\ sendian = "BE" /\ schunk = <<>> /\ slog = <<>>

ScriptInit ==
    /\ spc = "init"
    /\ skind \in {"Lscr", "Lctx", "Lnam"}
    /\ sstream \in ScriptWires(skind)
    /\ sentry \in {"BE", "LE"}
    /\ sendian = sentry
    /\ schunk = <<>>
    /\ slog = <<>>

\* what a read leaves: the fields set, the stream's endianness, the reads made
ScriptReadDone(r) ==
    /\ spc' = IF r.ok THEN "read" ELSE "error"
    /\ schunk' = r.f
    /\ sendian' = r.e
    /\ slog' = r.log
    /\ UNCHANGED <<skind, sstream, sentry>>
    /\ ScriptFrame

\* ScriptChunk::read
ScriptReadCall ==
    /\ spc = "init" /\ skind = "Lscr"
    /\ ScriptReadDone(ScriptChunkRead(sstream, sendian))

\* ScriptContextChunk::read up to the section map
ContextReadCall ==
    /\ spc = "init" /\ skind = "Lctx"
    /\ ScriptReadDone(ScriptContextRead(sstream, sendian))

\* ScriptNamesChunk::read
NamesReadCall ==
    /\ spc = "init" /\ skind = "Lnam"
    /\ ScriptReadDone(ScriptNamesRead(sstream, sendian))

\* ------------------------------------------------------------------
\* Specifications, one per chunk kind
\* ------------------------------------------------------------------
InitMember ==
    MemberInit /\ CastIdle /\ CtxIdle /\ ListIdle /\ ConfigIdle /\ InfoIdle
        /\ ScriptIdle

NextMember == MemberRead \/ MemberSize \/ MemberWrite

SpecMember == InitMember /\ [][NextMember]_vars

InitCast ==
    MemberIdle /\ CastInit /\ CtxIdle /\ ListIdle /\ ConfigIdle /\ InfoIdle
        /\ ScriptIdle

NextCast == PopulateBind \/ PopulateMember \/ PopulateDone

SpecCast == InitCast /\ [][NextCast]_vars

InitContext ==
    MemberIdle /\ CastIdle /\ CtxInit /\ ListIdle /\ ConfigIdle /\ InfoIdle
        /\ ScriptIdle

NextContext ==
    \/ CtxResolveLnam \/ CtxLoadScript \/ CtxStartTranslate \/ CtxTranslate
    \/ CtxDone \/ CallGetName

SpecContext == InitContext /\ [][NextContext]_vars

InitList ==
    MemberIdle /\ CastIdle /\ CtxIdle /\ ListInit /\ ConfigIdle /\ InfoIdle
        /\ ScriptIdle

NextList ==
    \/ CastListRead \/ CastListReadEntry \/ CastListNullItem \/ CastListReadDone
    \/ ListProbe

SpecList == InitList /\ [][NextList]_vars

InitConfig ==
    MemberIdle /\ CastIdle /\ CtxIdle /\ ListIdle /\ ConfigInit /\ InfoIdle
        /\ ScriptIdle

NextConfig == ConfigRead \/ ConfigSizeCall \/ ConfigWriteCall

SpecConfig == InitConfig /\ [][NextConfig]_vars

InitInfo ==
    MemberIdle /\ CastIdle /\ CtxIdle /\ ListIdle /\ ConfigIdle /\ InfoInit
        /\ ScriptIdle

NextInfo == InfoRead \/ InfoSize \/ InfoWrite

SpecInfo == InitInfo /\ [][NextInfo]_vars

InitScript ==
    MemberIdle /\ CastIdle /\ CtxIdle /\ ListIdle /\ ConfigIdle /\ InfoIdle
        /\ ScriptInit

NextScript == ScriptReadCall \/ ContextReadCall \/ NamesReadCall

SpecScript == InitScript /\ [][NextScript]_vars

\* every chunk kind: one of them is loaded
Init ==
    \/ InitMember \/ InitCast \/ InitContext \/ InitList \/ InitConfig
    \/ InitInfo \/ InitScript

Next ==
    \/ NextMember \/ NextCast \/ NextContext \/ NextList \/ NextConfig
    \/ NextInfo \/ NextScript

Spec == Init /\ [][Next]_vars

\* ------------------------------------------------------------------
\* Properties
\* ------------------------------------------------------------------
\* C1: in the version < 500 layout, size() then write() of a chunk that
\* read parsed without error emits exactly the bytes that were read.
C1_OldLayoutRoundTrip ==
    (mpc = "written" /\ dirVersion < 500) => mout = mstream

\* the 0-based positions of memberIDs that populate resolves
MemberPositions == {i \in 0..(Len(cast.memberIDs) - 1) : cast.memberIDs[i + 1] > 0}

\* the script the bound context gives to the chunk of a section, or Null
ScriptOfSection(sectionID) ==
    IF HasScript(cdir, cast.lctx, casts[sectionID].scriptId)
    THEN BoundScripts(cdir, cast.lctx)[casts[sectionID].scriptId]
    ELSE Null

Last(S) == CHOOSE i \in S : \A j \in S : j <= i

\* C2 as claimed: after populate every member whose scriptId is a key of the
\* bound context's scripts has script == scripts[scriptId] and that script's
\* member pointing back at this member, also when members share a scriptId.
C2_MutualBackPointers ==
    cpc = "done" =>
        \A k \in DOMAIN cast.members :
            LET m == cast.members[k] IN
            HasScript(cdir, cast.lctx, casts[m].scriptId) =>
                /\ casts[m].script = BoundScripts(cdir, cast.lctx)[casts[m].scriptId]
                /\ lscripts[casts[m].script].member = m

\* C2 amended: every such member has script == scripts[scriptId]; the
\* script's member pointer is the member of the last position of memberIDs
\* that is given this script (the pointers are mutual for that member only).
C2_LastMemberOwnsScript ==
    cpc = "done" =>
        \A k \in DOMAIN cast.members :
            LET m == cast.members[k]
                sc == ScriptOfSection(m)
            IN  HasScript(cdir, cast.lctx, casts[m].scriptId) =>
                  /\ casts[m].script = BoundScripts(cdir, cast.lctx)[casts[m].scriptId]
                  /\ lscripts[sc].member =
                       cast.memberIDs[Last({i \in MemberPositions :
                           ScriptOfSection(cast.memberIDs[i + 1]) = sc}) + 1]

\* two different members of the cast were given the same script
C2_Witness ==
    /\ cpc = "done"
    /\ \E k1, k2 \in DOMAIN cast.members :
         /\ cast.members[k1] # cast.members[k2]
         /\ casts[cast.members[k1]].script # Null
         /\ casts[cast.members[k1]].script = casts[cast.members[k2]].script

\* C3 as claimed: every position i with memberIDs[i] > 0 has an entry at key
\* i + minMember, positions with memberIDs[i] <= 0 create none, and the chunk
\* under every key k has id == k, also when a section ID occurs twice.
C3_IdEqualsKey ==
    cpc = "done" =>
        /\ DOMAIN cast.members = {i + castArgs.minMember : i \in MemberPositions}
        /\ \A k \in DOMAIN cast.members : casts[cast.members[k]].id = k

\* C3 amended: the entries are as claimed and the entry at key i + minMember
\* is the chunk of section memberIDs[i]; a chunk's id is the key of the last
\* position at which its section ID occurs.
C3_IdIsLastKey ==
    cpc = "done" =>
        /\ DOMAIN cast.members = {i + castArgs.minMember : i \in MemberPositions}
        /\ \A i \in MemberPositions :
             LET sectionID == cast.memberIDs[i + 1] IN
             /\ cast.members[i + castArgs.minMember] = sectionID
             /\ casts[sectionID].id =
                  Last({j \in MemberPositions : cast.memberIDs[j + 1] = sectionID})
                      + castArgs.minMember

\* a section ID occurs at two positions of a cast whose minMember is not 0
C3_Witness ==
    /\ cpc = "done"
    /\ castArgs.minMember > 0
    /\ \E i, j \in MemberPositions :
         i # j /\ cast.memberIDs[i + 1] = cast.memberIDs[j + 1]

\* the number a decimal text denotes
DigitValue(ch) == CHOOSE d \in 0..9 : Digit(d) = ch

RECURSIVE ParseNat(_)
ParseNat(t) ==
    IF Len(t) = 1 THEN DigitValue(t[1])
    ELSE 10 * ParseNat(SubSeq(t, 1, Len(t) - 1)) + DigitValue(t[Len(t)])

IsDecimalOf(t, n) ==
    /\ Len(t) >= 1
    /\ IF t[1] = "-"
       THEN Len(t) >= 2 /\ t[2] # "0" /\ -ParseNat(Tail(t)) = n
       ELSE (Len(t) > 1 => t[1] # "0") /\ ParseNat(t) = n

\* C4: every script bound by the context has propertyNames as long as
\* propertyNameIDs with propertyNames[i] = getName(propertyNameIDs[i]), and
\* the same for the globals, for any section map.
C4_NamesMirrorIds ==
    \A key \in DOMAIN ctx.scripts :
        LET sc == lscr[ctx.scripts[key]] IN
        /\ Len(sc.propertyNames) = Len(sc.propertyNameIDs)
        /\ \A i \in 1..Len(sc.propertyNameIDs) :
             sc.propertyNames[i] = getName(lnam.names, sc.propertyNameIDs[i])
        /\ Len(sc.globalNames) = Len(sc.globalNameIDs)
        /\ \A i \in 1..Len(sc.globalNameIDs) :
             sc.globalNames[i] = getName(lnam.names, sc.globalNameIDs[i])

\* C5: getName(id) is names[id] when 0 <= id < namesCount and otherwise the
\* text UNKNOWN_NAME_ followed by the decimal id, negative ids and an empty
\* table included.
C5_GetNameOrSentinel ==
    nprobe.called =>
        IF 0 <= nprobe.id /\ nprobe.id < Len(lnam.names)
        THEN nprobe.name = lnam.names[nprobe.id + 1]
        ELSE /\ Len(nprobe.name) > Len(UnknownName)
             /\ SubSeq(nprobe.name, 1, Len(UnknownName)) = UnknownName
             /\ IsDecimalOf(SubSeq(nprobe.name, Len(UnknownName) + 1,
                                   Len(nprobe.name)), nprobe.id)

\* getName was called with a negative two-digit id
C5_Witness == nprobe.called /\ nprobe.id < -9

\* the offset table length a cast list declares on the wire
WireTableLen(s) == U16At(s, W32At(s, 0, "BE"), "BE")

\* C6: an accessor called with an index >= offsetTableLen returns the empty
\* string, 0 or an empty result and no error; a list whose offset table has
\* length 0 parses with no items.
C6_OutOfRangeIsEmpty ==
    /\ (probe.called /\ probe.index >= list.offsetTableLen) =>
          /\ probe.bytes = [null |-> TRUE, data |-> <<>>]
          /\ probe.string = [ok |-> TRUE, val |-> <<>>]
          /\ probe.pascal = [ok |-> TRUE, val |-> <<>>]
          /\ probe.u16 = [ok |-> TRUE, val |-> 0]
          /\ probe.u32 = [ok |-> TRUE, val |-> 0]
    /\ (lpc \notin {"idle", "init"} /\ WireTableLen(lstream) = 0) =>
          list.ok /\ list.offsetTableLen = 0 /\ list.items = <<>>

\* the accessors were called past the end of a non-empty offset table
C6_Witness ==
    probe.called /\ list.offsetTableLen > 0 /\ probe.index >= list.offsetTableLen

\* C7: CastListChunk::read completes without error when the offset table is
\* short, and a field whose item is absent is left empty or zero.
C7_AbsentItemsSilent ==
    /\ lpc \notin {"crashed", "error"}
    /\ lpc = "read" =>
         \A k \in 0..(list.castCount - 1) :
            LET Absent(j) == list.itemsPerCast < j
                               \/ CastItemIndex(list, k, j) >= list.offsetTableLen
                e == entries[k + 1]
            IN  /\ Absent(1) => e.name = <<>>
                /\ Absent(2) => e.filePath = <<>>
                /\ Absent(3) => e.preloadSettings = 0
                /\ Absent(4) => e.minMember = 0 /\ e.maxMember = 0 /\ e.id = 0

\* the len field and the stored checksum of the input record
WireLen == U16At(gstream, 0, "BE")

WireChecksum == W32At(gstream, 64, "BE")

ConfigWasRead == gpc \in {"read", "sized", "written"}

\* C8: for a record whose len is >= 68 and equals the input length, read
\* leaves in remnants the len - 68 bytes after the checksum field, size()
\* returns len, write emits len bytes ending with those remnants, and the
\* whole output equals the input when the stored checksum is the computed one.
C8_RemnantsRoundTrip ==
    (ConfigWasRead /\ WireLen >= 68 /\ WireLen = Len(gstream)) =>
        /\ config.remnants = SubSeq(gstream, 69, WireLen)
        /\ gpc \in {"sized", "written"} => glog.sizeRet = WireLen
        /\ gpc = "written" =>
             /\ Len(gout) = WireLen
             /\ SubSeq(gout, 69, WireLen) = SubSeq(gstream, 69, WireLen)
             /\ WireChecksum = glog.computed => gout = gstream

\* a record with len = 72 was written back with its four remnant bytes
C8_Witness ==
    /\ gpc = "written" /\ WireLen = 72 /\ Len(gstream) = 72
    /\ SubSeq(gout, 69, 72) = RemnantSample

\* C9: the stage-color step adds stageColor + 15 below version 700 and
\* (stageColor & 0xFF) + 15 from 700 on, the comment-style step multiplies by
\* ((commentStyle >> 8) & 0xFF) + 14 below 800 and by commentStyle + 14 from
\* 800 on, in wrap-around 32-bit arithmetic; no other step depends on the
\* version.
C9_VersionGates ==
    ConfigWasRead =>
        LET ver == humanVersion(config.directorVersion)
            t == glog.trace
        IN  /\ t[StageColorStep + 1] =
                  Add32(t[StageColorStep],
                        IF ver < 700 THEN config.stageColor + 15
                        ELSE (config.stageColor % 256) + 15)
            /\ t[CommentStyleStep + 1] =
                  Mul32(t[CommentStyleStep],
                        IF ver < 800 THEN ((config.commentStyle \div 256) % 256) + 14
                        ELSE config.commentStyle + 14)
            /\ \A v \in {200, 600, 700, 800, 1200} :
                 LET a == ChecksumSteps(config, v)
                     b == ChecksumSteps(config, ver)
                 IN  /\ Len(a) = Len(b)
                     /\ \A k \in DOMAIN b \ {CommentStyleStep, StageColorStep} :
                          a[k] = b[k]

\* a record of version 700 whose stage color and comment style do not fit a byte
C9_Witness ==
    /\ ConfigWasRead
    /\ humanVersion(config.directorVersion) = 700
    /\ config.stageColor = 511 /\ config.commentStyle = 4660

\* C10: when the stored checksum differs from the computed one, read only
\* warns: it completes, the fields and remnants hold what the input holds, and
\* the checksum field keeps the stored value.
C10_MismatchOnlyWarns ==
    /\ (gpc \in {"read", "sized"} /\ WireChecksum # glog.computed) =>
          /\ glog.warned
          /\ config.checksum = WireChecksum
          /\ config.len = WireLen
          /\ config.fileVersion = U16At(gstream, 2, "BE")
          /\ config.movieTop = I16At(gstream, 4, "BE")
          /\ config.maxMember = U16At(gstream, 14, "BE")
          /\ config.field10 = U8At(gstream, 17)
          /\ config.commentStyle = U16At(gstream, 24, "BE")
          /\ config.stageColor = I16At(gstream, 26, "BE")
          /\ config.field19 = W32At(gstream, 32, "BE")
          /\ config.directorVersion = I16At(gstream, 36, "BE")
          /\ config.field25 = U8At(gstream, 52)
          /\ config.protection = I16At(gstream, 58, "BE")
          /\ config.field29 = W32At(gstream, 60, "BE")
          /\ config.remnants = SubSeq(gstream, 69, WireLen)
    /\ gpc = "error" =>
          Len(gstream) < 68 \/ WireLen < 68 \/ WireLen > Len(gstream)

\* a record with a wrong stored checksum was read
C10_Witness ==
    gpc = "read" /\ glog.warned /\ config.checksum # glog.computed

\* C11: for every byte sequence CastInfoChunk::read parses without error,
\* write emits exactly the input bytes: header, offset table, itemsLen and
\* every item at its offset, a name item that encodes an empty name included.
C11_InfoRoundTrip ==
    infopc = "written" => iout = istream

\* the 16-bit elements of a table as big-endian values
TableBE(count, offset) ==
    [i \in 1..count |-> I16At(sstream, offset + 2 * (i - 1), "BE")]

\* C12: every field of an Lscr, Lctx/LctX or Lnam chunk is read with the
\* stream endianness big-endian, whatever it was on entry, and no field is
\* read before the endianness is forced.
C12_ScriptReadsBigEndian ==
    spc \notin {"idle", "init"} =>
        /\ spc = "read"
        /\ sendian = "BE"
        /\ slog # <<>>
        /\ \A i \in DOMAIN slog : slog[i].e = "BE"
        /\ skind = "Lscr" =>
             /\ schunk["totalLength"] = W32At(sstream, 8, "BE")
             /\ schunk["scriptNumber"] = U16At(sstream, 18, "BE")
             /\ schunk["scriptBehavior"] = W32At(sstream, 38, "BE")
             /\ schunk["propertiesCount"] = U16At(sstream, 60, "BE")
             /\ schunk["globalsOffset"] = W32At(sstream, 68, "BE")
             /\ schunk["literalsDataOffset"] = W32At(sstream, 88, "BE")
             /\ schunk["propertyNameIDs"] =
                   TableBE(U16At(sstream, 60, "BE"), W32At(sstream, 62, "BE"))
             /\ schunk["globalNameIDs"] =
                   TableBE(U16At(sstream, 66, "BE"), W32At(sstream, 68, "BE"))
        /\ skind = "Lctx" =>
             /\ schunk["entryCount"] = W32At(sstream, 8, "BE")
             /\ schunk["entriesOffset"] = U16At(sstream, 16, "BE")
             /\ schunk["lnamSectionID"] = W32At(sstream, 32, "BE")
             /\ schunk["freePointer"] = I16At(sstream, 40, "BE")
             /\ schunk["sectionMap"] =
                   [i \in 1..W32At(sstream, 8, "BE") |->
                      W32At(sstream, U16At(sstream, 16, "BE") + 12 * (i - 1) + 4, "BE")]
        /\ skind = "Lnam" =>
             /\ schunk["len1"] = W32At(sstream, 8, "BE")
             /\ schunk["namesOffset"] = U16At(sstream, 16, "BE")
             /\ schunk["namesCount"] = U16At(sstream, 18, "BE")
             /\ Len(schunk["names"]) = U16At(sstream, 18, "BE")

\* an Lscr chunk with name tables was read from a little-endian stream
C12_Witness ==
    /\ spc = "read" /\ skind = "Lscr" /\ sentry = "LE"
    /\ Len(schunk["propertyNameIDs"]) >= 1 /\ Len(schunk["globalNameIDs"]) >= 1

\* the sections of the calls of one kind, in the order they were made
RECURSIVE CallsOf(_, _)
CallsOf(log, what) ==
    IF log = <<>> THEN <<>>
    ELSE (IF Head(log)[1] = what THEN <<Head(log)[2]>> ELSE <<>>)
             \o CallsOf(Tail(log), what)

\* the section IDs > -1 among the first n entries of a section map, in order
RECURSIVE BoundSections(_, _)
BoundSections(map, n) ==
    IF n = 0 THEN <<>>
    ELSE BoundSections(map, n - 1) \o (IF map[n] > -1 THEN <<map[n]>> ELSE <<>>)

\* C13: read resolves the Lnam chunk first; then each section-map entry at
\* 0-based position k with sectionID > -1 has its Lscr chunk bound with
\* setContext and recorded under key k + 1, in map order, the others getting
\* no key; no translate is invoked before setContext was called for every
\* such entry, and translate is then invoked once for each recorded key, in
\* key order.
C13_ReadOrder ==
    LET map == ctx.sectionMap
        passed == IF xpc = "load" THEN ctx.i - 1 ELSE Len(map)
    IN
    xpc \notin {"idle", "init"} =>
        /\ xlog # <<>> /\ xlog[1] = <<"getLnam", 0>> /\ lnam.bound
        /\ Len(CallsOf(xlog, "getLnam")) = 1
        /\ DOMAIN ctx.scripts = {k \in 1..passed : map[k] > -1}
        /\ \A k \in DOMAIN ctx.scripts : ctx.scripts[k] = map[k]
        /\ CallsOf(xlog, "setContext") = BoundSections(map, passed)
        /\ \A i, j \in DOMAIN xlog :
              (xlog[i][1] = "translate" /\ xlog[j][1] = "setContext") => j < i
        /\ CallsOf(xlog, "translate") # <<>> =>
              CallsOf(xlog, "setContext") = BoundSections(map, Len(map))
        /\ xpc = "done" =>
              /\ CallsOf(xlog, "translate") = BoundSections(map, Len(map))
              /\ \A sc \in LscrSlots :
                    lscr[sc].translated =
                        Cardinality({k \in DOMAIN ctx.scripts : ctx.scripts[k] = sc})

\* a context with two different scripts was read to the end
C13_Witness ==
    /\ xpc = "done" /\ Cardinality(DOMAIN ctx.scripts) = 2
    /\ ctx.scripts[1] # ctx.scripts[2]

\* the positions of the key table whose entry has the cast's id, the tag
\* Lctx or LctX and a slot that holds a chunk of that tag
MatchingKeys ==
    {k \in 1..Len(cdir.keyTable) :
        /\ cdir.keyTable[k].castID = castArgs.id
        /\ cdir.keyTable[k].fourCC \in {"Lctx", "LctX"}
        /\ cdir.keyTable[k].sectionID \in DOMAIN cdir.contexts
        /\ cdir.contexts[cdir.keyTable[k].sectionID].tag = cdir.keyTable[k].fourCC}

\* C14: populate binds the context to the chunk of the first key-table entry,
\* in table order, with castID == id, tag Lctx or LctX and an existing slot,
\* whatever entries follow; with no such entry the context stays unbound and
\* no member gets a script, nor a script a member.
C14_FirstMatchingKey ==
    cpc \in {"loop", "done"} =>
        IF MatchingKeys = {}
        THEN /\ cast.lctx = Null
             /\ \A m \in CastSlots : casts[m].script = Null
             /\ \A sc \in ScriptIds : lscripts[sc].member = Null
        ELSE LET first == CHOOSE k \in MatchingKeys : \A j \in MatchingKeys : k <= j
             IN  cast.lctx = cdir.keyTable[first].sectionID

\* two entries of the key table match, for different context chunks, and a
\* member was given a script of the first one
C14_Witness ==
    /\ cpc = "done"
    /\ Cardinality({cdir.keyTable[k].sectionID : k \in MatchingKeys}) = 2
    /\ \E m \in CastSlots : casts[m].script # Null

\* C15: computeChecksum yields a defined result for every record read can
\* produce: neither division has a zero divisor, so no read or write ends
\* inside the checksum computation.
C15_ChecksumDefined ==
    /\ gpc # "crashed"
    /\ ConfigWasRead =>
          /\ config.movieTop + 3 # 0
          /\ config.movieBottom + 5 # 0
          /\ computeChecksum(config, build).ok

\* C16: in the version < 500 layout, for every declared specificDataLen, 0
\* included, read takes exactly specificDataLen bytes for the type byte, the
\* flags1 byte and the specific data: hasFlags1 holds exactly when
\* specificDataLen >= 2 and specificData has specificDataLen - 1 -
\* (1 if hasFlags1) bytes, a length that is never negative.
C16_OldLayoutLengths ==
    (mpc \notin {"idle", "init"} /\ dirVersion < 500) =>
        LET declared == U16At(mstream, 0, "BE")
            rest == declared - 1 - (IF member.hasFlags1 THEN 1 ELSE 0)
        IN  /\ mpc # "error"
            /\ member.hasFlags1 = (declared >= 2)
            /\ rest >= 0
            /\ Len(member.specificData) = rest

====
